---------------------------- MODULE Spec2Model ----------------------------
(***************************************************************************)
(* A model of the retrieval and ingestion core of Chatbot_GAIT:            *)
(*   - SearchService.get_context  (backend/app/services/search_service.py) *)
(*   - chunk_text                 (backend/app/services/data_processor.py) *)
(*   - main, the batch loop       (backend/app/services/data_processor.py) *)
(*   - VideoProcessor: process_video, process_videos_parallel, run, main   *)
(*                               (backend/app/services/video_processor.py) *)
(*   - process_video_and_store    (backend/video_processor.py)             *)
(* Each component has a specification of its own; the variables of the     *)
(* other components stay at their idle values.                             *)
(*                                                                         *)
(* Positions in a text are Python positions (0-based); a text is a         *)
(* sequence of one-character strings, so text[p+1] is Python's text[p].    *)
(* Similarities are in hundredths: 10 stands for 0.1.                      *)
(***************************************************************************)
EXTENDS Integers, Sequences, FiniteSets, TLC

VARIABLES
    \* ---- SearchService ----
    documents,      \* self.documents: the 'source' of every loaded chunk, in load order
    vectors,        \* self.vectors: "None" or "fitted"
    n_results,      \* get_context's argument
    similarities,   \* cosine_similarity(query_vector, self.vectors)[0] for the query
    top_indices,    \* np.argsort(similarities)[-n_results*2:][::-1]
    result,         \* what get_context gave: [status, context, sources]
    spc,            \* "idle" | "ready" | "done"
    \* ---- chunk_text ----
    text, chunk_size, overlap, max_chunks,   \* the arguments
    start, chunks, chunk_count,              \* the locals
    windows,        \* history: the [start, end) window each emitted chunk was cut from
    visited,        \* history: the <<start, chunk_count>> each iteration began with
    cpc,            \* "idle" | "call" | "loop" | "done"
    \* ---- VideoProcessor.process_video (one video) ----
    audio_len,      \* len(audio), milliseconds
    split_i,        \* the i of the splitting loop
    audio_chunks,   \* the chunk files written: [offset, length, size] each
    temp_files,     \* the files that exist in the temporary directory
    transcriptions, \* the local list of extract_and_transcribe_audio
    chunk_idx,      \* position of the transcription loop in audio_chunks (1-based)
    attempt,        \* the attempt of _transcribe_audio_chunk
    retry_delay,    \* the retry_delay of _transcribe_audio_chunk, seconds
    calls,          \* history: every request made to the service: [offset, status, text]
    sleeps,         \* history: every time.sleep of a retry: [offset, delay, after]
    transcription,  \* what extract_and_transcribe_audio returned
    record,         \* what process_video returned
    vpc,            \* "idle" | "extract" | "split" | "loop" | "attempt" |
                    \* "exit_return" | "exit_raise" | "returned" | "done"
    \* ---- VideoProcessor.process_videos_parallel ----
    max_workers,    \* the argument of process_videos_parallel
    video_files,    \* get_video_files()
    futures,        \* of each process_video call: "pending" | "running" | "finished"
    extracted,      \* history: how each call's extract_and_transcribe_audio went
    results,        \* what each finished call returned
    next_result,    \* the position executor.map's iterator is at (1-based)
    all_transcriptions, all_metadata,        \* the two lists returned
    out_of_order,   \* history: a call ended while an earlier one was still running
    bpc,            \* "idle" | "map" | "done"
    \* ---- process_video_and_store (stand-alone script) ----
    mv_track,       \* the length of the audio track, milliseconds
    mv_duration,    \* duration, seconds
    mv_start_time,  \* the start_time of the splitting loop
    mv_chunks,      \* the chunk files written: [start_time, end_time] each
    mv_temp_files,  \* the files that exist in the mkdtemp directory
    mv_transcriptions,                       \* the local list of transcribe_audio_chunks
    mv_idx,         \* position of the transcription loop in mv_chunks (1-based)
    mv_added,       \* history: what was given to collection.add
    mpc,            \* "idle" | "extract" | "split" | "transcribe" | "done" | "raised"
    \* ---- main() of the video processor ----
    env_key,        \* os.getenv("OPENAI_API_KEY"); "unset" is None
    env_url,        \* os.getenv("WHISPER_API_URL"); "unset" is None
    path_exists,    \* os.path.exists(self.video_materials_path)
    error,          \* the exception on its way to main: "none" | "ConfigurationError" | "Exception"
    effects,        \* history: what run() did, in order
    n_transcribed,  \* len(transcriptions) in run()
    exit_code,      \* "none" | "0" | "1"
    npc,            \* "idle" | "construct" | "verify" | "initialize" | "process" |
                    \* "store" | "except" | "exited"
    \* ---- main() of data_processor, run twice ----
    ing_chunks,     \* the chunks process_directory returns for the directory
    ing_run,        \* which ingestion is running: 1 or 2
    ing_i,          \* the i of the batch loop
    store,          \* the collection: a set of [id, document, run]
    count_after_first,                       \* history: collection.count() after run 1
    ids_first, ids_second,                   \* history: the batch_ids each run made
    other_failure,  \* history: an add failed for a reason other than its ids
    ing_raised,     \* main of the current run ended with an exception
    ipc             \* "idle" | "start" | "batches" | "returned" | "raised"

searchVars == <<documents, vectors, n_results, similarities, top_indices, result, spc>>
chunkVars  == <<text, chunk_size, overlap, max_chunks, start, chunks, chunk_count,
                windows, visited, cpc>>
videoVars  == <<audio_len, split_i, audio_chunks, temp_files, transcriptions, chunk_idx,
                attempt, retry_delay, calls, sleeps, transcription, record, vpc>>
batchVars  == <<max_workers, video_files, futures, extracted, results, next_result,
                all_transcriptions, all_metadata, out_of_order, bpc>>
moviepyVars == <<mv_track, mv_duration, mv_start_time, mv_chunks, mv_temp_files,
                 mv_transcriptions, mv_idx, mv_added, mpc>>
mainVars == <<env_key, env_url, path_exists, error, effects, n_transcribed,
             exit_code, npc>>
ingestVars == <<ing_chunks, ing_run, ing_i, store, count_after_first, ids_first,
                ids_second, other_failure, ing_raised, ipc>>
vars == <<searchVars, chunkVars, videoVars, batchVars, moviepyVars, mainVars, ingestVars>>

Min(a, b) == IF a < b THEN a ELSE b
Max(a, b) == IF a > b THEN a ELSE b

(***************************************************************************)
(*                              Bounds                                     *)
(***************************************************************************)
MaxDocs == 3
MaxTextLen == 5
MaxChunks == 4
MaxVideos == 3

(***************************************************************************)
(*                        SearchService.get_context                        *)
(***************************************************************************)
\* File names a corpus may hold: two whose lower-cased name contains
\* "metabolism" and two that do not.
Files == {"metabolism.pdf", "Metabolism_2.pdf", "a.pdf", "b.pdf"}

\* "metabolism" in doc['source'].lower()
MatchesTopic(source) == source \in {"metabolism.pdf", "Metabolism_2.pdf"}

\* n_results values tried.
NResults == 1..2

\* Similarity values a query may give a chunk (hundredths).
Scores == {0, 10, 20, 30}

\* The similarity threshold 0.1 of both passes.
Floor == 10

\* Variant: the threshold test with >= in place of >.
AboveFloorAtOrAbove(s) == s >= Floor

\* similarities[idx] > 0.1
AboveFloor(s) == s > Floor

\* Variant: no seen_files test.
NotSeenAlways(source, seen_files) == TRUE

\* doc['source'] not in seen_files
NotSeen(source, seen_files) == source \notin seen_files

EmptyResult == [context |-> <<>>, sources |-> <<>>]

\* Variant: the handler lets the exception out.
OnExceptionReraise == [status |-> "raised"] @@ EmptyResult

\* except Exception: return {'context': "", 'sources': []}
OnException == [status |-> "returned"] @@ EmptyResult

\* Variant: the argsort order without the [::-1] reversal.
SortedAscending(sims, t) ==
    \A i \in 1..(Len(t) - 1) : sims[t[i]] <= sims[t[i + 1]]

\* The order [::-1] gives the argsort: highest similarity first.
SortedDescending(sims, t) ==
    \A i \in 1..(Len(t) - 1) : sims[t[i]] >= sims[t[i + 1]]

\* np.argsort(similarities)[-n_results*2:][::-1]: the min(2n, N) highest-scoring
\* indices, highest first. argsort's default sort is not stable, so equal
\* similarities may come in either order: every such order is an outcome.
TopIndexOrders(sims, n) ==
    LET N == Len(sims)
        K == Min(2 * n, N)
    IN  { t \in [1..K -> 1..N] :
            /\ \A i, j \in 1..K : i # j => t[i] # t[j]
            /\ SortedDescending(sims, t)
            /\ \A d \in (1..N) \ { t[i] : i \in 1..K } :
                  \A i \in 1..K : sims[d] <= sims[t[i]] }

\* One retained chunk: its text goes into context, its file and score into sources.
Retain(acc, docs, sims, idx) ==
    [context |-> Append(acc.context, idx),
     sources |-> Append(acc.sources,
                        [filename |-> docs[idx], similarity |-> sims[idx]]),
     seen_files |-> acc.seen_files \cup {docs[idx]}]

\* The first loop: files that match the topic, no limit on their number.
RECURSIVE FirstPass(_, _, _, _, _)
FirstPass(acc, docs, sims, top, i) ==
    IF i > Len(top) THEN acc
    ELSE LET idx == top[i]
             take == /\ AboveFloor(sims[idx])
                     /\ MatchesTopic(docs[idx])
                     /\ NotSeen(docs[idx], acc.seen_files)
         IN  FirstPass(IF take THEN Retain(acc, docs, sims, idx) ELSE acc,
                       docs, sims, top, i + 1)

\* The second loop: any file not yet seen, until n sources are collected.
RECURSIVE SecondPass(_, _, _, _, _, _)
SecondPass(acc, docs, sims, top, n, i) ==
    IF i > Len(top) THEN acc
    ELSE LET idx == top[i]
             take == /\ AboveFloor(sims[idx])
                     /\ NotSeen(docs[idx], acc.seen_files)
             nxt == IF take THEN Retain(acc, docs, sims, idx) ELSE acc
         IN  IF take /\ Len(nxt.sources) >= n
             THEN nxt
             ELSE SecondPass(nxt, docs, sims, top, n, i + 1)

\* The body of the try block, from the candidate order on.
Select(docs, sims, top, n) ==
    LET init == [context |-> <<>>, sources |-> <<>>, seen_files |-> {}]
        p1 == FirstPass(init, docs, sims, top, 1)
        p2 == IF Len(p1.sources) < n
              THEN SecondPass(p1, docs, sims, top, n, 1)
              ELSE p1
    IN  \* context.strip() trims the outer newlines only: the pieces stay
        [status |-> "returned", context |-> p2.context, sources |-> p2.sources]

\* self.documents and self.vectors after __init__ -> load_documents: vectors are
\* fitted exactly when some chunk was loaded.
SearchInit ==
    /\ documents \in UNION { [1..k -> Files] : k \in 0..MaxDocs }
    /\ vectors = IF documents = <<>> THEN "None" ELSE "fitted"
    /\ n_results = 0
    /\ similarities = <<>>
    /\ top_indices = <<>>
    /\ result = [status |-> "none"] @@ EmptyResult
    /\ spc = "ready"

\* if not self.documents or self.vectors is None: return the empty result
GetContextNotLoaded ==
    /\ spc = "ready"
    /\ documents = <<>> \/ vectors = "None"
    /\ \E n \in NResults : n_results' = n
    /\ result' = [status |-> "returned"] @@ EmptyResult
    /\ spc' = "done"
    /\ UNCHANGED <<documents, vectors, similarities, top_indices>>

\* The try block runs to its return.
GetContextSelect ==
    /\ spc = "ready"
    /\ ~(documents = <<>> \/ vectors = "None")
    /\ \E n \in NResults, sims \in [1..Len(documents) -> Scores] :
         \E top \in TopIndexOrders(sims, n) :
            /\ n_results' = n
            /\ similarities' = sims
            /\ top_indices' = top
            /\ result' = Select(documents, sims, top, n)
    /\ spc' = "done"
    /\ UNCHANGED <<documents, vectors>>

\* vectorizer.transform or cosine_similarity raises inside the try block.
GetContextFailure ==
    /\ spc = "ready"
    /\ ~(documents = <<>> \/ vectors = "None")
    /\ \E n \in NResults : n_results' = n
    /\ result' = OnException
    /\ spc' = "done"
    /\ UNCHANGED <<documents, vectors, similarities, top_indices>>

(***************************************************************************)
(*                      Properties of get_context                          *)
(***************************************************************************)
\* The try block ran to its return (no early return, no exception).
Selected == spc = "done" /\ Len(similarities) = Len(documents) /\ documents # <<>>

Filenames(sources) == { sources[i].filename : i \in 1..Len(sources) }

\* The candidates of one file among top_indices.
CandidatesOf(file) ==
    { top_indices[i] : i \in { k \in 1..Len(top_indices) : documents[top_indices[k]] = file } }

\* C1: the sources list get_context returns never holds two entries with the
\* same filename.
C1_DistinctFilenames ==
    \A i, j \in 1..Len(result.sources) :
        i # j => result.sources[i].filename # result.sources[j].filename

\* C1's case: two candidates of one file both score above the floor, and the
\* file is returned.
C1_Witness ==
    /\ Selected
    /\ \E i, j \in 1..Len(top_indices) :
          /\ i # j
          /\ documents[top_indices[i]] = documents[top_indices[j]]
          /\ similarities[top_indices[i]] > Floor
          /\ similarities[top_indices[j]] > Floor
          /\ documents[top_indices[i]] \in Filenames(result.sources)

\* C2 (as claimed): get_context returns at most n_results sources.
C2_AtMostNResults ==
    spc = "done" => Len(result.sources) <= n_results

\* C3 (as claimed): the sources are in descending similarity order and each is
\* the highest-scoring candidate chunk of its file.
C3_DescendingOverall ==
    Selected =>
        /\ \A i \in 1..(Len(result.sources) - 1) :
              result.sources[i].similarity >= result.sources[i + 1].similarity
        /\ \A i \in 1..Len(result.sources) :
              \A d \in CandidatesOf(result.sources[i].filename) :
                  similarities[d] <= result.sources[i].similarity

\* C3 (amended): the entries of topic files come first, the entries of each of
\* the two groups (topic files, other files) are in descending similarity
\* order, and each entry is the highest-scoring candidate chunk of its file.
C3_DescendingWithinGroup ==
    Selected =>
        /\ \A i, j \in 1..Len(result.sources) :
              (i < j /\ MatchesTopic(result.sources[j].filename))
                  => MatchesTopic(result.sources[i].filename)
        /\ \A i, j \in 1..Len(result.sources) :
              (i < j /\ MatchesTopic(result.sources[i].filename)
                          = MatchesTopic(result.sources[j].filename))
                  => result.sources[i].similarity >= result.sources[j].similarity
        /\ \A i \in 1..Len(result.sources) :
              \A d \in CandidatesOf(result.sources[i].filename) :
                  similarities[d] <= result.sources[i].similarity

\* C3's case: a topic file is returned ahead of a file that scores higher, and
\* a returned file had a second, lower-scoring candidate.
C3_Witness ==
    /\ Selected
    /\ Len(result.sources) >= 2
    /\ MatchesTopic(result.sources[1].filename)
    /\ result.sources[1].similarity < result.sources[2].similarity
    /\ \E d \in CandidatesOf(result.sources[2].filename) :
          similarities[d] < result.sources[2].similarity

\* C4 (as claimed): on a loaded index where no chunk scores above the floor,
\* get_context returns no source and a "no relevant content" context that
\* differs from the (empty) context of an index that was never loaded.
C4_SentinelWhenNothingRelevant ==
    (Selected /\ \A d \in 1..Len(similarities) : similarities[d] <= Floor) =>
        /\ result.status = "returned"
        /\ result.sources = <<>>
        /\ result.context # EmptyResult.context

\* C5: every returned source scores strictly above the floor, and so does
\* every chunk whose text is part of the returned context.
C5_AboveFloor ==
    /\ \A i \in 1..Len(result.sources) : result.sources[i].similarity > Floor
    /\ \A i \in 1..Len(result.context) : similarities[result.context[i]] > Floor

\* C5's case: a candidate scores exactly the floor, another above it, and
\* something is returned.
C5_Witness ==
    /\ Selected
    /\ result.sources # <<>>
    /\ \E i \in 1..Len(top_indices) : similarities[top_indices[i]] = Floor
    /\ \E i \in 1..Len(top_indices) :
          /\ similarities[top_indices[i]] < Floor
          /\ documents[top_indices[i]] \notin Filenames(result.sources)

\* C6: get_context never raises; it returns a context and a sources list, and
\* the empty result when no document was loaded.
C6_NeverRaises ==
    spc = "done" =>
        /\ result.status = "returned"
        /\ DOMAIN result = {"status", "context", "sources"}
        /\ result.context \in Seq(1..Len(documents))
        /\ \A i \in 1..Len(result.sources) :
              /\ result.sources[i].filename \in Files
              /\ result.sources[i].similarity \in Scores
        /\ (documents = <<>> => /\ result.context = <<>>
                                /\ result.sources = <<>>)

\* C6's case: vectorisation or scoring failed on a loaded index, and the empty
\* result came back.
C6_Witness ==
    /\ spc = "done"
    /\ documents # <<>>
    /\ similarities = <<>>
    /\ result = [status |-> "returned", context |-> <<>>, sources |-> <<>>]

(***************************************************************************)
(*                               chunk_text                                *)
(***************************************************************************)
Alphabet == {".", " ", "\n", "a"}

\* The characters str.strip() removes, among those of Alphabet.
Whitespace == {" ", "\n"}

\* chunk_size and overlap values tried.
ChunkSizes == 1..4
Overlaps == 0..4

Texts == UNION { [1..k -> Alphabet] : k \in 0..MaxTextLen }

\* How str.find and str.rfind read a start or end argument: a negative one counts
\* from the end of the string, and both are clipped to [0, len].
AdjustIndex(i, n) == IF i < 0 THEN Max(i + n, 0) ELSE Min(i, n)

\* The positions p in [s, e) at which sub occurs wholly inside [s, e).
Occurrences(t, sub, s, e) ==
    LET a == AdjustIndex(s, Len(t))
        b == AdjustIndex(e, Len(t))
    IN  { p \in a..(b - Len(sub)) : \A k \in 1..Len(sub) : t[p + k] = sub[k] }

\* text.find(sub, s, e)
Find(t, sub, s, e) ==
    LET occ == Occurrences(t, sub, s, e)
    IN  IF occ = {} THEN -1 ELSE CHOOSE p \in occ : \A q \in occ : p <= q

\* text.rfind(sub, s, e)
RFind(t, sub, s, e) ==
    LET occ == Occurrences(t, sub, s, e)
    IN  IF occ = {} THEN -1 ELSE CHOOSE p \in occ : \A q \in occ : p >= q

\* str.strip()
Strip(t) ==
    LET keep == { i \in 1..Len(t) : t[i] \notin Whitespace }
    IN  IF keep = {} THEN <<>>
        ELSE SubSeq(t, CHOOSE i \in keep : \A q \in keep : i <= q,
                       CHOOSE i \in keep : \A q \in keep : i >= q)

\* for break_char in ['. ', '\n', ' ']
BreakStrings == << <<".", " ">>, <<"\n">>, <<" ">> >>

\* The for loop over the break strings: the first of them that occurs in
\* [s, e) decides, and the cut is one past the start of its last occurrence.
NaturalEnd(t, s, e) ==
    LET found == { k \in 1..Len(BreakStrings) : RFind(t, BreakStrings[k], s, e) # -1 }
    IN  IF found = {} THEN e
        ELSE RFind(t, BreakStrings[CHOOSE k \in found : \A q \in found : k <= q], s, e) + 1

\* Variant: the natural break is looked for without the end < text_length test.
WindowEndAlwaysBreaks(t, s, size) ==
    NaturalEnd(t, s, Min(s + size, Len(t)))

\* end = start + chunk_size, clipped to the text, moved to a natural break
\* when the window ends before the text does.
WindowEnd(t, s, size) ==
    LET e == Min(s + size, Len(t))
    IN  IF e < Len(t) THEN NaturalEnd(t, s, e) ELSE e

\* Variant: the next sentence is looked for after the cut, not before it.
NextStartForward(t, e, ov) ==
    IF e < Len(t)
    THEN LET next_sentence == Find(t, <<".", " ">>, e, e + ov)
         IN  IF next_sentence # -1 THEN next_sentence + 2 ELSE e
    ELSE e

\* start = end, then back to just after the first '. ' of the last `overlap`
\* characters when there is one.
NextStart(t, e, ov) ==
    IF e < Len(t)
    THEN LET next_sentence == Find(t, <<".", " ">>, e - ov, e)
         IN  IF next_sentence # -1 THEN next_sentence + 2 ELSE e
    ELSE e

\* Variant: the cap test with > in place of >=.
CapReachedOffByOne(count, cap) == count > cap

\* chunk_count >= max_chunks: the loop condition and the break test.
CapReached(count, cap) == count >= cap

\* A call chunk_text(text, chunk_size, overlap, max_chunks).
ChunkInit ==
    /\ text \in Texts
    /\ chunk_size \in ChunkSizes
    /\ overlap \in Overlaps
    /\ max_chunks \in 1..MaxChunks
    /\ start = 0
    /\ chunks = <<>>
    /\ chunk_count = 0
    /\ windows = <<>>
    /\ visited = {}
    /\ cpc = "call"

\* if not text: return []
ChunkEmptyText ==
    /\ cpc = "call"
    /\ text = <<>>
    /\ cpc' = "done"
    /\ UNCHANGED <<text, chunk_size, overlap, max_chunks, start, chunks,
                   chunk_count, windows, visited>>

\* chunks = [], start = 0, chunk_count = 0, and on to the loop.
ChunkBegin ==
    /\ cpc = "call"
    /\ text # <<>>
    /\ start' = 0
    /\ chunks' = <<>>
    /\ chunk_count' = 0
    /\ cpc' = "loop"
    /\ UNCHANGED <<text, chunk_size, overlap, max_chunks, windows, visited>>

\* One iteration of the while loop.
ChunkIteration ==
    /\ cpc = "loop"
    /\ start < Len(text) /\ ~CapReached(chunk_count, max_chunks)
    /\ \E end \in {WindowEnd(text, start, chunk_size)} :
       \E chunk \in {Strip(SubSeq(text, start + 1, end))} :
       \E count \in {IF chunk # <<>> THEN chunk_count + 1 ELSE chunk_count} :
           /\ chunks' = IF chunk # <<>> THEN Append(chunks, chunk) ELSE chunks
           /\ windows' = IF chunk # <<>> THEN Append(windows, <<start, end>>)
                                         ELSE windows
           /\ chunk_count' = count
           /\ IF CapReached(count, max_chunks)
              THEN /\ cpc' = "done"
                   /\ start' = start
              ELSE /\ cpc' = "loop"
                   /\ start' = NextStart(text, end, overlap)
    /\ visited' = visited \cup {<<start, chunk_count>>}
    /\ UNCHANGED <<text, chunk_size, overlap, max_chunks>>

\* The while condition is false: return chunks.
ChunkExit ==
    /\ cpc = "loop"
    /\ ~(start < Len(text) /\ ~CapReached(chunk_count, max_chunks))
    /\ cpc' = "done"
    /\ UNCHANGED <<text, chunk_size, overlap, max_chunks, start, chunks,
                   chunk_count, windows, visited>>

(***************************************************************************)
(*                       Properties of chunk_text                          *)
(***************************************************************************)
\* c is t without its leading and trailing whitespace (t has a character that
\* is not whitespace).
IsTrimOf(c, t) ==
    \E i, j \in 1..Len(t) :
        /\ i <= j
        /\ c = SubSeq(t, i, j)
        /\ t[i] \notin Whitespace
        /\ t[j] \notin Whitespace
        /\ \A k \in 1..Len(t) : (k < i \/ k > j) => t[k] \in Whitespace

AllWhitespace(t) == \A k \in 1..Len(t) : t[k] \in Whitespace

\* C7 (as claimed): chunk_text terminates. An iteration reads only text,
\* chunk_size, overlap, max_chunks, start and chunk_count, and the first four
\* never change, so a call that terminates never begins two iterations with the
\* same start and chunk_count: one that does repeats the iterations between
\* them for ever. Stated as that: the loop is never about to begin an iteration
\* with a start and chunk_count an earlier iteration began with.
C7_NoIterationStateTwice ==
    (cpc = "loop" /\ start < Len(text) /\ chunk_count < max_chunks) =>
        <<start, chunk_count>> \notin visited

C9_OneChunkAlways ==
    (cpc = "done" /\ Len(text) < chunk_size) =>
        /\ Len(chunks) = 1
        /\ \/ IsTrimOf(chunks[1], text)
           \/ AllWhitespace(text) /\ chunks[1] = <<>>

\* C9 (amended): a text shorter than chunk_size that holds a character other
\* than whitespace gives exactly one chunk, the text without its outer
\* whitespace; an empty or all-whitespace text gives no chunk.
C9_OneChunkUnlessBlank ==
    (cpc = "done" /\ Len(text) < chunk_size) =>
        IF AllWhitespace(text)
        THEN chunks = <<>>
        ELSE Len(chunks) = 1 /\ IsTrimOf(chunks[1], text)

\* C9's case: a short text with whitespace around its content came back as one
\* chunk.
C9_Witness ==
    /\ cpc = "done"
    /\ Len(text) < chunk_size
    /\ Len(text) >= 2
    /\ text[1] \in Whitespace
    /\ ~AllWhitespace(text)
    /\ Len(chunks) = 1

\* C10: chunk_text never holds more than max_chunks chunks.
C10_AtMostMaxChunks ==
    /\ Len(chunks) <= max_chunks
    /\ chunk_count = Len(chunks)

\* C10's case: the cap ended the loop while text that is not whitespace was
\* still ahead of the last window.
C10_Witness ==
    /\ cpc = "done"
    /\ Len(chunks) = max_chunks
    /\ \E p \in 0..(Len(text) - 1) :
          /\ text[p + 1] \notin Whitespace
          /\ \A i \in 1..Len(windows) : windows[i][2] <= p

\* The break points of the window [s, w): the positions at which one of the
\* three break strings occurs wholly inside the window.
BreakPoints(t, s, w) ==
    UNION {Occurrences(t, BreakStrings[k], s, w) : k \in 1..Len(BreakStrings)}

\* The cut e is the one made at the break point p: just after its first
\* character, or, for the space that ends a ". ", also just before it.
CutAt(t, e, p) ==
    \/ e = p + 1
    \/ /\ e = p
       /\ p >= 1
       /\ t[p] = "."
       /\ t[p + 1] = " "

\* C22: for every chunk cut from a window [s, w) that ends before the text
\* does and holds a break point, the cut was made at the break point nearest
\* to w: no break string occurs in the window after it.
C22_CutAtNearestBreak ==
    \A i \in 1..Len(windows) :
       LET s == windows[i][1]
           w == Min(s + chunk_size, Len(text))
           bp == BreakPoints(text, s, w)
       IN  (w < Len(text) /\ bp # {}) =>
              CutAt(text, windows[i][2], CHOOSE p \in bp : \A q \in bp : p >= q)

\* C22's case: a chunk was cut at a ". " although a space lies nearer to the
\* end of its window.
C22_Witness ==
    \E i \in 1..Len(windows) :
       LET s == windows[i][1]
           w == Min(s + chunk_size, Len(text))
           e == windows[i][2]
       IN  /\ w < Len(text)
           /\ e - 1 \in Occurrences(text, <<".", " ">>, s, w)
           /\ \E p \in Occurrences(text, <<" ">>, s, w) : p > e

\* The position in the text of the first character of chunk i: the first
\* character of its window that is not whitespace.
ChunkStartPos(i) ==
    CHOOSE p \in windows[i][1]..(windows[i][2] - 1) :
       /\ text[p + 1] \notin Whitespace
       /\ \A q \in windows[i][1]..(p - 1) : text[q + 1] \in Whitespace

\* C24: every chunk is a non-empty run of consecutive characters of the
\* text, begins and ends with a character that is not whitespace and is at
\* most chunk_size long; and every chunk after the first starts at most
\* overlap characters before the end of the window of the chunk before it,
\* and not before the start of that chunk.
C24_ChunksWellFormed ==
    /\ Len(windows) = Len(chunks)
    /\ \A i \in 1..Len(chunks) :
          /\ chunks[i] # <<>>
          /\ Len(chunks[i]) <= chunk_size
          /\ chunks[i][1] \notin Whitespace
          /\ chunks[i][Len(chunks[i])] \notin Whitespace
          /\ \E a \in windows[i][1]..(windows[i][2] - 1) :
                /\ a + Len(chunks[i]) <= windows[i][2]
                /\ chunks[i] = SubSeq(text, a + 1, a + Len(chunks[i]))
    /\ \A i \in 2..Len(chunks) :
          /\ ChunkStartPos(i) >= windows[i - 1][2] - overlap
          /\ ChunkStartPos(i) >= ChunkStartPos(i - 1)

\* C24's case: the look back of more than the last chunks' lengths moved the
\* start behind the chunk before, so that a chunk begins before the start of
\* its predecessor.
C24_Witness ==
    /\ overlap < Len(text)
    /\ \E i \in 2..Len(chunks) : ChunkStartPos(i) < ChunkStartPos(i - 1)

(***************************************************************************)
(*   VideoProcessor.process_video  (backend/app/services/video_processor.py)*)
(*                                                                         *)
(* Durations are milliseconds and sizes are bytes, as in the source.  A    *)
(* text is a sequence of words and separators.  The speech-to-text service *)
(* keeps its contract: a 200 response carries a JSON body.                 *)
(***************************************************************************)
\* self.chunk_length: 15 minutes in milliseconds.
chunk_length == 15 * 60 * 1000

\* self.max_chunk_size: 25 MB.
max_chunk_size == 25 * 1024 * 1024

\* max_retries of _transcribe_audio_chunk.
max_retries == 3

\* The value retry_delay starts with on every call of _transcribe_audio_chunk.
FirstRetryDelay == 5

\* len(audio) values tried: none, 1 ms, one chunk, one chunk and 1 ms, two
\* chunks, 40 minutes.
AudioLengths ==
    {0, 1, chunk_length, chunk_length + 1, 2 * chunk_length, 40 * 60 * 1000}

\* os.path.getsize values an exported chunk file may have: at the limit and
\* one byte above it.
ChunkFileSizes == {max_chunk_size, max_chunk_size + 1}

\* What is said in the chunk that starts at an offset.
Speech(offset) ==
    CASE offset = 0 -> "alpha"
      [] offset = chunk_length -> "beta"
      [] OTHER -> "gamma"

\* The "text" a 200 response may carry for a chunk: nothing (silence) or the
\* words of the chunk.
ServiceTexts(offset) == {<<>>, <<Speech(offset)>>}

\* Status codes other than 200 the service may answer with.
ErrorStatuses == {"429", "500"}

\* Python values: None and a str.
None == [isNone |-> TRUE, text |-> <<>>]
Str(t) == [isNone |-> FALSE, text |-> t]

\* Variant: a test for "is not None".
TruthyNotNone(v) == ~v.isNone

\* Python's truth value of an Optional[str]: None and "" are false.
Truthy(v) == ~v.isNone /\ v.text # <<>>

\* " ".join(transcriptions)
RECURSIVE Join(_)
Join(ts) ==
    IF ts = <<>> THEN <<>>
    ELSE IF Len(ts) = 1 THEN ts[1]
    ELSE ts[1] \o <<" ">> \o Join(Tail(ts))

\* Variant: everything but None is appended.
KeptNotNone(ts, v) == IF v.isNone THEN ts ELSE Append(ts, v.text)

\* if transcription: transcriptions.append(transcription)
Kept(ts, v) == IF Truthy(v) THEN Append(ts, v.text) ELSE ts

\* Variant: every status but 200 is retried.
RetryOnAnyStatus(status, att) == status # "200" /\ att < max_retries - 1

\* response.status_code == 429 and attempt < max_retries - 1
RetryOn429(status, att) == status = "429" /\ att < max_retries - 1

\* attempt < max_retries - 1 of the exception handler
RetryOnException(att) == att < max_retries - 1

\* The (None, None) of process_video.
NoRecord == [isNone |-> TRUE, transcription |-> <<>>, filename |-> "",
             source |-> "", transcription_length |-> 0]

\* What process_video returns for a file, given extract_and_transcribe_audio's
\* return value.
ProcessVideoResult(file, v) ==
    IF Truthy(v)
    THEN [isNone |-> FALSE, transcription |-> v.text, filename |-> file,
          source |-> file, transcription_length |-> Len(v.text)]
    ELSE NoRecord

\* The one video of a process_video call.
VideoFile == "lecture.mp4"

\* The temporary files of one video.
TempAudio == <<"temp_audio", 0>>
ChunkPath(i) == <<"chunk", i>>

VideoInit ==
    /\ audio_len = 0
    /\ split_i = 0
    /\ audio_chunks = <<>>
    /\ temp_files = {}
    /\ transcriptions = <<>>
    /\ chunk_idx = 0
    /\ attempt = 0
    /\ retry_delay = 0
    /\ calls = <<>>
    /\ sleeps = <<>>
    /\ transcription = None
    /\ record = NoRecord
    /\ vpc = "extract"

\* mp.VideoFileClip(video_path) raises: no temporary directory exists yet.
VideoFileClipRaises ==
    /\ vpc = "extract"
    /\ transcription' = None
    /\ vpc' = "returned"
    /\ UNCHANGED <<audio_len, split_i, audio_chunks, temp_files, transcriptions,
                   chunk_idx, attempt, retry_delay, calls, sleeps, record>>

\* The temporary directory is made, the audio track is written into it and
\* loaded.
ExtractAudio ==
    /\ vpc = "extract"
    /\ \E L \in AudioLengths : audio_len' = L
    /\ temp_files' = {TempAudio}
    /\ split_i' = 0
    /\ vpc' = "split"
    /\ UNCHANGED <<audio_chunks, transcriptions, chunk_idx, attempt, retry_delay,
                   calls, sleeps, transcription, record>>

\* write_audiofile or AudioSegment.from_mp3 raises inside the with block; the
\* audio file may or may not have been written.
ExtractAudioRaises ==
    /\ vpc = "extract"
    /\ temp_files' \in {{}, {TempAudio}}
    /\ vpc' = "exit_raise"
    /\ UNCHANGED <<audio_len, split_i, audio_chunks, transcriptions, chunk_idx,
                   attempt, retry_delay, calls, sleeps, transcription, record>>

\* One iteration of "for i in range(0, len(audio), self.chunk_length)".
SplitChunk ==
    /\ vpc = "split"
    /\ split_i < audio_len
    /\ \E size \in ChunkFileSizes :
          audio_chunks' = Append(audio_chunks,
                                 [offset |-> split_i,
                                  length |-> Min(chunk_length, audio_len - split_i),
                                  size |-> size])
    /\ temp_files' = temp_files \cup {ChunkPath(split_i)}
    /\ split_i' = split_i + chunk_length
    /\ UNCHANGED <<audio_len, transcriptions, chunk_idx, attempt, retry_delay,
                   calls, sleeps, transcription, record, vpc>>

\* chunk.export raises.
SplitRaises ==
    /\ vpc = "split"
    /\ split_i < audio_len
    /\ vpc' = "exit_raise"
    /\ UNCHANGED <<audio_len, split_i, audio_chunks, temp_files, transcriptions,
                   chunk_idx, attempt, retry_delay, calls, sleeps, transcription,
                   record>>

\* The range is exhausted; the transcription loop begins.
SplitDone ==
    /\ vpc = "split"
    /\ split_i >= audio_len
    /\ chunk_idx' = 1
    /\ vpc' = "loop"
    /\ UNCHANGED <<audio_len, split_i, audio_chunks, temp_files, transcriptions,
                   attempt, retry_delay, calls, sleeps, transcription, record>>

\* os.path.getsize(chunk_path) > self.max_chunk_size: warning, continue.
ChunkTooLarge ==
    /\ vpc = "loop"
    /\ chunk_idx <= Len(audio_chunks)
    /\ audio_chunks[chunk_idx].size > max_chunk_size
    /\ chunk_idx' = chunk_idx + 1
    /\ UNCHANGED <<audio_len, split_i, audio_chunks, temp_files, transcriptions,
                   attempt, retry_delay, calls, sleeps, transcription, record, vpc>>

\* _transcribe_audio_chunk is entered for the chunk.
TranscribeBegin ==
    /\ vpc = "loop"
    /\ chunk_idx <= Len(audio_chunks)
    /\ audio_chunks[chunk_idx].size <= max_chunk_size
    /\ attempt' = 0
    /\ retry_delay' = FirstRetryDelay
    /\ vpc' = "attempt"
    /\ UNCHANGED <<audio_len, split_i, audio_chunks, temp_files, transcriptions,
                   chunk_idx, calls, sleeps, transcription, record>>

\* _transcribe_audio_chunk returns v: the caller keeps it if it is true and
\* goes to the next chunk.
TranscribeReturn(v) ==
    /\ transcriptions' = Kept(transcriptions, v)
    /\ chunk_idx' = chunk_idx + 1
    /\ vpc' = "loop"
    /\ UNCHANGED <<attempt, retry_delay, sleeps>>

\* time.sleep(retry_delay) and continue; the delay doubles when asked.
Retry(double, cause) ==
    /\ sleeps' = Append(sleeps, [offset |-> audio_chunks[chunk_idx].offset,
                                 delay |-> retry_delay,
                                 after |-> cause])
    /\ retry_delay' = IF double THEN retry_delay * 2 ELSE retry_delay
    /\ attempt' = attempt + 1
    /\ UNCHANGED <<transcriptions, chunk_idx, vpc>>

\* requests.post answers 200.
Respond200 ==
    /\ vpc = "attempt"
    /\ \E t \in ServiceTexts(audio_chunks[chunk_idx].offset) :
          /\ calls' = Append(calls, [offset |-> audio_chunks[chunk_idx].offset,
                                     status |-> "200", text |-> t])
          /\ TranscribeReturn(Str(t))
    /\ UNCHANGED <<audio_len, split_i, audio_chunks, temp_files, transcription,
                   record>>

\* requests.post answers another status.
RespondError ==
    /\ vpc = "attempt"
    /\ \E status \in ErrorStatuses :
          /\ calls' = Append(calls, [offset |-> audio_chunks[chunk_idx].offset,
                                     status |-> status, text |-> <<>>])
          /\ IF RetryOn429(status, attempt)
             THEN Retry(TRUE, status)
             ELSE TranscribeReturn(None)
    /\ UNCHANGED <<audio_len, split_i, audio_chunks, temp_files, transcription,
                   record>>

\* requests.post raises (the 300 s timeout, a connection error).
RespondException ==
    /\ vpc = "attempt"
    /\ calls' = Append(calls, [offset |-> audio_chunks[chunk_idx].offset,
                               status |-> "exception", text |-> <<>>])
    /\ IF RetryOnException(attempt)
       THEN Retry(FALSE, "exception")
       ELSE TranscribeReturn(None)
    /\ UNCHANGED <<audio_len, split_i, audio_chunks, temp_files, transcription,
                   record>>

\* Every chunk was looked at: the return statement is reached.
LoopDone ==
    /\ vpc = "loop"
    /\ chunk_idx > Len(audio_chunks)
    /\ vpc' = "exit_return"
    /\ UNCHANGED <<audio_len, split_i, audio_chunks, temp_files, transcriptions,
                   chunk_idx, attempt, retry_delay, calls, sleeps, transcription,
                   record>>

\* The with block of the TemporaryDirectory is left, by the return or by the
\* exception: the directory and its files are removed, and
\* extract_and_transcribe_audio returns the joined text or (except branch) None.
TempDirExit ==
    /\ vpc \in {"exit_return", "exit_raise"}
    /\ temp_files' = {}
    /\ transcription' = IF vpc = "exit_return" THEN Str(Join(transcriptions)) ELSE None
    /\ vpc' = "returned"
    /\ UNCHANGED <<audio_len, split_i, audio_chunks, transcriptions, chunk_idx,
                   attempt, retry_delay, calls, sleeps, record>>

\* process_video builds its return value.
ProcessVideoReturn ==
    /\ vpc = "returned"
    /\ record' = ProcessVideoResult(VideoFile, transcription)
    /\ vpc' = "done"
    /\ UNCHANGED <<audio_len, split_i, audio_chunks, temp_files, transcriptions,
                   chunk_idx, attempt, retry_delay, calls, sleeps, transcription>>

(***************************************************************************)
(*                     Properties of process_video                         *)
(***************************************************************************)
\* The requests made for the chunk that starts at an offset, as positions of calls.
CallsOf(offset) == {k \in 1..Len(calls) : calls[k].offset = offset}

\* The chunk got a 200 response.
Succeeded(offset) == \E k \in CallsOf(offset) : calls[k].status = "200"

\* The text of the chunk's 200 response.
TextOf(offset) ==
    calls[CHOOSE k \in CallsOf(offset) : calls[k].status = "200"].text

\* The texts of the chunks from position k on that got a 200 response, in
\* chunk order; with nonEmptyOnly, only the texts that are not empty.
RECURSIVE SucceededTexts(_, _)
SucceededTexts(k, nonEmptyOnly) ==
    IF k > Len(audio_chunks) THEN <<>>
    ELSE LET o == audio_chunks[k].offset
             rest == SucceededTexts(k + 1, nonEmptyOnly)
         IN  IF Succeeded(o) /\ (~nonEmptyOnly \/ TextOf(o) # <<>>)
             THEN <<TextOf(o)>> \o rest
             ELSE rest

\* extract_and_transcribe_audio returned from its return statement.
ReturnedNormally == vpc \in {"returned", "done"} /\ ~transcription.isNone

\* C11 as stated: the transcript is the texts of exactly the chunks whose
\* transcription succeeded, joined in chunk order, and process_video gives a
\* record whenever at least one chunk succeeded.
C11_TranscriptOfSucceededChunks ==
    /\ ReturnedNormally => transcription.text = Join(SucceededTexts(1, FALSE))
    /\ (vpc = "done" /\ SucceededTexts(1, FALSE) # <<>>) => ~record.isNone

\* C11 amended: the transcript is the texts of exactly the chunks that got a
\* 200 response with a text that is not empty, joined in chunk order; chunks
\* that failed, were skipped or came back empty leave no trace in it; and
\* process_video gives a record, holding that transcript, exactly when at
\* least one chunk came back with a text that is not empty.
C11_TranscriptOfNonEmptyTexts ==
    /\ ReturnedNormally => transcription.text = Join(SucceededTexts(1, TRUE))
    /\ vpc = "done" =>
          /\ ~record.isNone <=> (ReturnedNormally /\ SucceededTexts(1, TRUE) # <<>>)
          /\ ~record.isNone => record.transcription = transcription.text

\* C11's case: three chunks, the second failed on all three attempts, the
\* first and the third were transcribed, and the record holds their texts.
C11_Witness ==
    /\ vpc = "done"
    /\ Len(audio_chunks) = 3
    /\ Cardinality(CallsOf(audio_chunks[2].offset)) = max_retries
    /\ ~Succeeded(audio_chunks[2].offset)
    /\ ~record.isNone
    /\ record.transcription = <<"alpha", " ", "gamma">>

C14_WaitDoubles ==
    \A k \in 1..Len(sleeps) :
       IF k > 1 /\ sleeps[k - 1].offset = sleeps[k].offset
       THEN sleeps[k].delay = 2 * sleeps[k - 1].delay
       ELSE sleeps[k].delay = FirstRetryDelay

\* C14's case: a chunk was retried twice, both times after an exception.
C14_Witness ==
    \E k \in 2..Len(sleeps) :
       /\ sleeps[k - 1].offset = sleeps[k].offset
       /\ sleeps[k - 1].after = "exception"
       /\ sleeps[k].after = "exception"

\* C15: every chunk sent to the service is within the size limit, and when
\* the loop has ended every span of the audio was sent, as the chunk itself
\* or as pieces of it.
C15_NoSpanLeftForSize ==
    /\ \A k \in 1..Len(calls) :
          \A c \in 1..Len(audio_chunks) :
             audio_chunks[c].offset = calls[k].offset
                => audio_chunks[c].size <= max_chunk_size
    /\ vpc = "exit_return" =>
          \A c \in 1..Len(audio_chunks) :
             \E k \in 1..Len(calls) :
                /\ calls[k].offset >= audio_chunks[c].offset
                /\ calls[k].offset < audio_chunks[c].offset + audio_chunks[c].length

\* C15's case: a chunk file above the size limit was met by the loop.
C15_Witness ==
    /\ vpc = "exit_return"
    /\ \E c \in 1..Len(audio_chunks) : audio_chunks[c].size > max_chunk_size

(***************************************************************************)
(*  VideoProcessor.process_videos_parallel                                 *)
(*                          (backend/app/services/video_processor.py)      *)
(*                                                                         *)
(* A worker's process_video call is one step here: it is the run modelled  *)
(* step by step above, summed up by what each chunk's                      *)
(* _transcribe_audio_chunk returned, and it shares no variable with the    *)
(* other workers.                                                          *)
(***************************************************************************)
\* max_workers values tried; 3 is the default, which run() uses.
WorkerCounts == 1..3

\* Numbers of chunks a video of the batch may have.
VideoChunkCounts == 0..2

\* The files get_video_files may find, in the order it lists them.
AllVideoFiles == <<"v1.mp4", "v2.mp4", "v3.mp4", "v4.mp4", "v5.mp4">>

\* What is said in chunk c of a file.
Words(file, c) ==
    CASE file = "v1.mp4" -> <<"a1", "b1">>[c]
      [] file = "v2.mp4" -> <<"a2", "b2">>[c]
      [] file = "v3.mp4" -> <<"a3", "b3">>[c]
      [] file = "v4.mp4" -> <<"a4", "b4">>[c]
      [] OTHER -> <<"a5", "b5">>[c]

\* What _transcribe_audio_chunk may return for chunk c of a file: None, the
\* empty text of a 200 response, or the words of the chunk.
ChunkReturns(file, c) == {None, Str(<<>>), Str(<<Words(file, c)>>)}

\* The ways extract_and_transcribe_audio may go for a file: it raises before
\* the loop, or each of its chunks (none, one or two) returns something.
Extractions(file) ==
    {[raised |-> TRUE, rets |-> <<>>]} \cup
    {[raised |-> FALSE, rets |-> r] :
        r \in UNION {{f \in [1..n -> {None, Str(<<>>), Str(<<Words(file, 1)>>),
                                      Str(<<Words(file, 2)>>)}] :
                         \A c \in 1..n : f[c] \in ChunkReturns(file, c)} :
                     n \in VideoChunkCounts}}

\* The list transcriptions after the loop went over the chunk returns.
RECURSIVE KeptAll(_)
KeptAll(rets) ==
    IF rets = <<>> THEN <<>>
    ELSE Kept(KeptAll(SubSeq(rets, 1, Len(rets) - 1)), rets[Len(rets)])

\* What extract_and_transcribe_audio returns.
ExtractReturn(e) == IF e.raised THEN None ELSE Str(Join(KeptAll(e.rets)))

\* Variant: every result is kept.
KeepResultAlways(res) == TRUE

\* "if transcription and metadata": (None, None) is not kept.
KeepResult(res) == ~res.isNone /\ res.transcription # <<>>

BatchInit ==
    /\ max_workers \in WorkerCounts
    /\ \E n \in 0..MaxVideos : video_files = SubSeq(AllVideoFiles, 1, n)
    /\ futures = [i \in 1..Len(video_files) |-> "pending"]
    /\ extracted = [i \in 1..Len(video_files) |-> [raised |-> FALSE, rets |-> <<>>]]
    /\ results = [i \in 1..Len(video_files) |-> NoRecord]
    /\ next_result = 1
    /\ all_transcriptions = <<>>
    /\ all_metadata = <<>>
    /\ out_of_order = FALSE
    /\ bpc = "map"

\* A free worker thread takes the next call of the executor's queue.
WorkerStart ==
    /\ bpc = "map"
    /\ Cardinality({i \in DOMAIN futures : futures[i] = "running"}) < max_workers
    /\ \E i \in DOMAIN futures :
          /\ futures[i] = "pending"
          /\ \A j \in 1..(i - 1) : futures[j] # "pending"
          /\ futures' = [futures EXCEPT ![i] = "running"]
    /\ UNCHANGED <<max_workers, video_files, extracted, results, next_result,
                   all_transcriptions, all_metadata, out_of_order, bpc>>

\* A worker's process_video call ends.
WorkerFinish ==
    /\ bpc = "map"
    /\ \E i \in DOMAIN futures :
          /\ futures[i] = "running"
          /\ \E e \in Extractions(video_files[i]) :
                /\ extracted' = [extracted EXCEPT ![i] = e]
                /\ results' = [results EXCEPT
                                  ![i] = ProcessVideoResult(video_files[i], ExtractReturn(e))]
          /\ futures' = [futures EXCEPT ![i] = "finished"]
          /\ out_of_order' = (out_of_order \/ \E j \in 1..(i - 1) : futures[j] = "running")
    /\ UNCHANGED <<max_workers, video_files, next_result, all_transcriptions, all_metadata, bpc>>

\* executor.map hands out the next result, in the order of video_files, once
\* its call has ended; the loop body keeps it if both parts are true.
Collect ==
    /\ bpc = "map"
    /\ next_result <= Len(video_files)
    /\ futures[next_result] = "finished"
    /\ IF KeepResult(results[next_result])
       THEN /\ all_transcriptions' = Append(all_transcriptions,
                                            results[next_result].transcription)
            /\ all_metadata' = Append(all_metadata,
                                      [filename |-> results[next_result].filename,
                                       source |-> results[next_result].source,
                                       transcription_length |->
                                           results[next_result].transcription_length])
       ELSE UNCHANGED <<all_transcriptions, all_metadata>>
    /\ next_result' = next_result + 1
    /\ UNCHANGED <<max_workers, video_files, futures, extracted, results,
                   out_of_order, bpc>>

\* The iterator is exhausted: process_videos_parallel returns the two lists.
BatchReturn ==
    /\ bpc = "map"
    /\ next_result > Len(video_files)
    /\ bpc' = "done"
    /\ UNCHANGED <<max_workers, video_files, futures, extracted, results, next_result,
                   all_transcriptions, all_metadata, out_of_order>>

(***************************************************************************)
(*                 Properties of process_videos_parallel                   *)
(***************************************************************************)
\* The video's extraction raised, or it had chunks and every one failed.
VideoFailed(i) ==
    \/ extracted[i].raised
    \/ /\ extracted[i].rets # <<>>
       /\ \A c \in 1..Len(extracted[i].rets) : extracted[i].rets[c].isNone

\* Some chunk of the video came back with a text that is not empty.
VideoHasText(i) ==
    /\ ~extracted[i].raised
    /\ \E c \in 1..Len(extracted[i].rets) : Truthy(extracted[i].rets[c])

\* The video has an entry in the returned lists.
Recorded(i) ==
    \E k \in 1..Len(all_metadata) : all_metadata[k].filename = video_files[i]

\* C12: when process_videos_parallel has returned, every video was processed;
\* a video that failed has no entry in the returned lists and its own result
\* is (None, None); and every video with a transcribed chunk has an entry.
C12_FailedVideoContained ==
    /\ \A i \in DOMAIN futures :
          (futures[i] = "finished" /\ VideoFailed(i)) => results[i].isNone
    /\ bpc = "done" =>
          \A i \in DOMAIN futures :
             /\ futures[i] = "finished"
             /\ VideoFailed(i) => ~Recorded(i)
             /\ VideoHasText(i) => Recorded(i)
    /\ Len(all_transcriptions) = Len(all_metadata)

\* C12's case: the first video's extraction raised, every chunk of the second
\* failed, and the third video was recorded.
C12_Witness ==
    /\ bpc = "done"
    /\ Len(video_files) = 3
    /\ extracted[1].raised
    /\ ~extracted[2].raised /\ Len(extracted[2].rets) = 2 /\ VideoFailed(2)
    /\ Recorded(3)
    /\ Len(all_metadata) = 1

\* The positions in video_files, up to n, of the videos that came back with a
\* text, in increasing order.
RECURSIVE KeptUpTo(_)
KeptUpTo(n) ==
    IF n <= 0 THEN <<>>
    ELSE IF VideoHasText(n) THEN Append(KeptUpTo(n - 1), n) ELSE KeptUpTo(n - 1)

\* C23: at every moment of every interleaving the two lists have the same
\* length and hold, in the order of video_files, exactly the videos handed
\* out so far that came back with a text; entry k of both lists belongs to
\* the same video, the text is that video's own, and when
\* process_videos_parallel returns every video was handed out.
C23_ListsFollowInputOrder ==
    LET idx == KeptUpTo(next_result - 1)
    IN  /\ Len(all_transcriptions) = Len(idx)
        /\ Len(all_metadata) = Len(idx)
        /\ \A k \in 1..Len(idx) :
              /\ k <= Len(all_metadata) /\ k <= Len(all_transcriptions)
              /\ all_metadata[k].filename = video_files[idx[k]]
              /\ all_metadata[k].source = video_files[idx[k]]
              /\ all_metadata[k].transcription_length = Len(all_transcriptions[k])
              /\ all_transcriptions[k] = results[idx[k]].transcription
              /\ \A c \in 1..Len(all_transcriptions[k]) :
                    all_transcriptions[k][c] \in
                       {" ", Words(video_files[idx[k]], 1), Words(video_files[idx[k]], 2)}
        /\ bpc = "done" =>
              /\ next_result = Len(video_files) + 1
              /\ \A i \in DOMAIN futures : futures[i] = "finished"

\* C23's case: three videos, a call ended while an earlier one was still
\* running, the second video failed, and the lists returned hold the first
\* and the third video in that order.
C23_Witness ==
    /\ bpc = "done"
    /\ out_of_order
    /\ Len(video_files) = 3
    /\ VideoFailed(2)
    /\ Len(all_metadata) = 2
    /\ all_metadata[1].filename = video_files[1]
    /\ all_metadata[2].filename = video_files[3]
    /\ all_transcriptions = <<results[1].transcription, results[3].transcription>>


(***************************************************************************)
(*      process_video_and_store            (backend/video_processor.py)    *)
(*                                                                         *)
(* The stand-alone script.  Its durations are seconds; the length of the   *)
(* track is kept in milliseconds so that audio_clip.duration can have a    *)
(* fraction.                                                               *)
(***************************************************************************)
\* The default chunk_duration of extract_and_split_audio_with_moviepy, seconds.
chunk_duration == 900

\* Track lengths tried, milliseconds: half a second, one second, 15 minutes,
\* 15 minutes and half a second, 30 minutes, 40 minutes.
TrackLengths ==
    {500, 1000, 900 * 1000, 900 * 1000 + 500, 2 * 900 * 1000, 40 * 60 * 1000}

\* int(audio_clip.duration), for a track of ms milliseconds.
IntSeconds(ms) == ms \div 1000

\* What is said in the chunk that starts at start_time.
SpeechAt(start_time) ==
    CASE start_time = 0 -> "alpha"
      [] start_time = chunk_duration -> "beta"
      [] OTHER -> "gamma"

\* response.text of a 200 response for a chunk: empty or the chunk's words.
ResponseTexts(start_time) == {<<>>, <<SpeechAt(start_time)>>}

\* The path of the video and its basename.
VideoPath == "videos/talk.mp4"
VideoName == "talk.mp4"

\* The files of the mkdtemp directory.
AudioPath == <<"audio", 0>>
ChunkFile(start_time) == <<"chunk", start_time>>

MoviepyInit ==
    /\ mv_track = 0
    /\ mv_duration = 0
    /\ mv_start_time = 0
    /\ mv_chunks = <<>>
    /\ mv_temp_files = {}
    /\ mv_transcriptions = <<>>
    /\ mv_idx = 0
    /\ mv_added = <<>>
    /\ mpc = "extract"

\* VideoFileClip, the missing audio or write_audiofile raises: the except
\* clause raises RuntimeError, which leaves process_video_and_store.  The
\* directory made by mkdtemp stays, with audio.mp3 if it was written.
MoviepyExtractRaises ==
    /\ mpc = "extract"
    /\ mv_temp_files' \in {{}, {AudioPath}}
    /\ mpc' = "raised"
    /\ UNCHANGED <<mv_track, mv_duration, mv_start_time, mv_chunks,
                   mv_transcriptions, mv_idx, mv_added>>

\* The audio is written to audio.mp3 and opened; duration is cut to an int.
MoviepyExtract ==
    /\ mpc = "extract"
    /\ \E ms \in TrackLengths :
          /\ mv_track' = ms
          /\ mv_duration' = IntSeconds(ms)
    /\ mv_temp_files' = {AudioPath}
    /\ mv_start_time' = 0
    /\ mpc' = "split"
    /\ UNCHANGED <<mv_chunks, mv_transcriptions, mv_idx, mv_added>>

\* One iteration of "for start_time in range(0, duration, chunk_duration)".
MoviepySplitChunk ==
    /\ mpc = "split"
    /\ mv_start_time < mv_duration
    /\ mv_chunks' = Append(mv_chunks,
                           [start_time |-> mv_start_time,
                            end_time |-> Min(mv_start_time + chunk_duration, mv_duration)])
    /\ mv_temp_files' = mv_temp_files \cup {ChunkFile(mv_start_time)}
    /\ mv_start_time' = mv_start_time + chunk_duration
    /\ UNCHANGED <<mv_track, mv_duration, mv_transcriptions, mv_idx, mv_added, mpc>>

\* Writing a chunk raises: RuntimeError leaves process_video_and_store.
MoviepySplitRaises ==
    /\ mpc = "split"
    /\ mv_start_time < mv_duration
    /\ mpc' = "raised"
    /\ UNCHANGED <<mv_track, mv_duration, mv_start_time, mv_chunks, mv_temp_files,
                   mv_transcriptions, mv_idx, mv_added>>

\* The range is exhausted: the chunk paths are returned and
\* transcribe_audio_chunks begins.
MoviepySplitDone ==
    /\ mpc = "split"
    /\ mv_start_time >= mv_duration
    /\ mv_idx' = 1
    /\ mpc' = "transcribe"
    /\ UNCHANGED <<mv_track, mv_duration, mv_start_time, mv_chunks, mv_temp_files,
                   mv_transcriptions, mv_added>>

\* A chunk is answered with 200: response.text is appended as it is.
MoviepyTranscribed ==
    /\ mpc = "transcribe"
    /\ mv_idx <= Len(mv_chunks)
    /\ \E t \in ResponseTexts(mv_chunks[mv_idx].start_time) :
          mv_transcriptions' = Append(mv_transcriptions, t)
    /\ mv_idx' = mv_idx + 1
    /\ UNCHANGED <<mv_track, mv_duration, mv_start_time, mv_chunks, mv_temp_files,
                   mv_added, mpc>>

\* A chunk is answered with another status, or the request raises: a message
\* is printed and the loop goes on.
MoviepyChunkFails ==
    /\ mpc = "transcribe"
    /\ mv_idx <= Len(mv_chunks)
    /\ mv_idx' = mv_idx + 1
    /\ UNCHANGED <<mv_track, mv_duration, mv_start_time, mv_chunks, mv_temp_files,
                   mv_transcriptions, mv_added, mpc>>

\* The joined text is given to collection.add under the video's name.
MoviepyStore ==
    /\ mpc = "transcribe"
    /\ mv_idx > Len(mv_chunks)
    /\ mv_added' = Append(mv_added, [id |-> VideoName,
                                     document |-> Join(mv_transcriptions),
                                     source |-> VideoPath,
                                     filename |-> VideoName])
    /\ mpc' = "done"
    /\ UNCHANGED <<mv_track, mv_duration, mv_start_time, mv_chunks, mv_temp_files,
                   mv_transcriptions, mv_idx>>

(***************************************************************************)
(*                Properties of process_video_and_store                    *)
(***************************************************************************)
\* ceil(a / b) for positive b.
CeilDiv(a, b) == (a + b - 1) \div b

\* C16: once the track is split, there are ceil(L / C) chunks; the first
\* starts at 0, each starts where the one before it ends, the last ends at
\* the end of the track, every chunk but the last lasts C and the last at
\* most C.
C16_CeilChunksCoverTrack ==
    mpc \in {"transcribe", "done"} =>
       /\ Len(mv_chunks) = CeilDiv(mv_track, chunk_duration * 1000)
       /\ mv_chunks # <<>>
       /\ mv_chunks[1].start_time = 0
       /\ mv_chunks[Len(mv_chunks)].end_time * 1000 = mv_track
       /\ \A k \in 1..Len(mv_chunks) :
             /\ mv_chunks[k].end_time > mv_chunks[k].start_time
             /\ mv_chunks[k].end_time - mv_chunks[k].start_time <= chunk_duration
             /\ k < Len(mv_chunks) =>
                   /\ mv_chunks[k].end_time - mv_chunks[k].start_time = chunk_duration
                   /\ mv_chunks[k + 1].start_time = mv_chunks[k].end_time

\* C16's case: a track that does not last a whole number of seconds was split.
C16_Witness ==
    /\ mpc \in {"transcribe", "done"}
    /\ mv_track = 900 * 1000 + 500
    /\ Len(mv_chunks) = 1

\* C17: when process_video_and_store has ended, by its return or by an
\* exception, no temporary audio file of the video is left.
C17_TempFilesRemoved ==
    mpc \in {"done", "raised"} => mv_temp_files = {}

\* C17's case: the video was transcribed and stored.
C17_Witness ==
    /\ mpc = "done"
    /\ mv_temp_files # {}

\* C18: every document given to collection.add has a text that is not empty
\* and a source and a filename that are not empty.
C18_StoredTextNotEmpty ==
    \A k \in 1..Len(mv_added) :
       /\ mv_added[k].document # <<>>
       /\ mv_added[k].source # ""
       /\ mv_added[k].filename # ""

\* C18's case: a video with chunks, all of which failed, went through
\* process_video_and_store.
C18_Witness ==
    /\ mpc = "done"
    /\ mv_chunks # <<>>
    /\ mv_transcriptions = <<>>

(***************************************************************************)
(*   main() and VideoProcessor.run                                         *)
(*                          (backend/app/services/video_processor.py)      *)
(***************************************************************************)
\* os.getenv("OPENAI_API_KEY"): not set, set to nothing, set to a key.
KeyValues == {"unset", "", "sk-key"}

\* os.getenv("WHISPER_API_URL"): not set, set to nothing, set to an address.
UrlValues == {"unset", "", "ftp://host", "http://host", "https://host"}

\* Numbers of transcriptions process_videos_parallel may come back with.
FoundCounts == 0..2

\* missing_vars of _load_and_validate_env: "not value" is true of None and "".
MissingVars(key, url) ==
    (IF key \in {"unset", ""} THEN {"OPENAI_API_KEY"} ELSE {}) \cup
    (IF url \in {"unset", ""} THEN {"WHISPER_API_URL"} ELSE {})

\* self.whisper_api_url.startswith(('http://', 'https://'))
ValidScheme(url) == url \in {"http://host", "https://host"}

\* Variant: only the materials path is validated.
ConfigurationProblemPathOnly(key, url, exists) == ~exists

\* _load_and_validate_env raises ConfigurationError.
ConfigurationProblem(key, url, exists) ==
    \/ MissingVars(key, url) # {}
    \/ ~ValidScheme(url)
    \/ ~exists

MainInit ==
    /\ env_key \in KeyValues
    /\ env_url \in UrlValues
    /\ path_exists \in BOOLEAN
    /\ error = "none"
    /\ effects = <<>>
    /\ n_transcribed = 0
    /\ exit_code = "none"
    /\ npc = "construct"

\* VideoProcessor() raises ConfigurationError out of _load_and_validate_env.
ConstructorRaises ==
    /\ npc = "construct"
    /\ ConfigurationProblem(env_key, env_url, path_exists)
    /\ error' = "ConfigurationError"
    /\ npc' = "except"
    /\ UNCHANGED <<env_key, env_url, path_exists, effects, n_transcribed, exit_code>>

\* VideoProcessor() returns and processor.run() is entered.
ConstructorReturns ==
    /\ npc = "construct"
    /\ ~ConfigurationProblem(env_key, env_url, path_exists)
    /\ npc' = "verify"
    /\ UNCHANGED <<env_key, env_url, path_exists, error, effects, n_transcribed, exit_code>>

\* self.verify_api_setup(): it logs what the request gives and never raises.
VerifyApiSetup ==
    /\ npc = "verify"
    /\ effects' = Append(effects, "verify_api_setup")
    /\ npc' = "initialize"
    /\ UNCHANGED <<env_key, env_url, path_exists, error, n_transcribed, exit_code>>

\* self.initialize_chroma() gets or creates the collection.
InitializeChroma ==
    /\ npc = "initialize"
    /\ effects' = Append(effects, "initialize_chroma")
    /\ npc' = "process"
    /\ UNCHANGED <<env_key, env_url, path_exists, error, n_transcribed, exit_code>>

\* self.initialize_chroma() raises; run() logs and raises it again.
InitializeChromaRaises ==
    /\ npc = "initialize"
    /\ effects' = Append(effects, "initialize_chroma")
    /\ error' = "Exception"
    /\ npc' = "except"
    /\ UNCHANGED <<env_key, env_url, path_exists, n_transcribed, exit_code>>

\* self.process_videos_parallel(): every extraction and every transcription
\* request of the run is made in here.
ProcessVideos ==
    /\ npc = "process"
    /\ effects' = Append(effects, "process_videos_parallel")
    /\ n_transcribed' \in FoundCounts
    /\ npc' = "store"
    /\ UNCHANGED <<env_key, env_url, path_exists, error, exit_code>>

\* self.store_in_chroma(...): collection.add is reached when there is
\* something to store.  run() and main() return.
StoreInChroma ==
    /\ npc = "store"
    /\ effects' = IF n_transcribed = 0
                  THEN Append(effects, "store_in_chroma")
                  ELSE effects \o <<"store_in_chroma", "collection.add">>
    /\ exit_code' = "0"
    /\ npc' = "exited"
    /\ UNCHANGED <<env_key, env_url, path_exists, error, n_transcribed>>

\* main's "except Exception": the error is logged and sys.exit(1) is called.
MainExcept ==
    /\ npc = "except"
    /\ exit_code' = "1"
    /\ npc' = "exited"
    /\ UNCHANGED <<env_key, env_url, path_exists, error, effects, n_transcribed>>

(***************************************************************************)
(*                          Properties of main()                           *)
(***************************************************************************)
\* C19: with OPENAI_API_KEY or WHISPER_API_URL missing, the constructor
\* raises ConfigurationError, the process exits with status 1, and nothing of
\* run() is ever done: no API check, no vector-store initialisation, no video
\* processing, no store write.
C19_ConfigurationErrorStops ==
    MissingVars(env_key, env_url) # {} =>
       /\ effects = <<>>
       /\ npc \in {"construct", "except", "exited"}
       /\ npc \in {"except", "exited"} => error = "ConfigurationError"
       /\ npc = "exited" => exit_code = "1"

\* C19's case: only OPENAI_API_KEY is missing (the address is valid and the
\* materials path exists) and the process has exited.
C19_Witness ==
    /\ npc = "exited"
    /\ env_key = "unset"
    /\ ValidScheme(env_url)
    /\ path_exists
    /\ error = "ConfigurationError"
    /\ exit_code = "1"

(***************************************************************************)
(*   main() of the document ingestion                                      *)
(*                          (backend/app/services/data_processor.py)       *)
(*                                                                         *)
(* The collection is the persistent Chroma collection "course_materials";  *)
(* what its add does with an id it already holds is Chroma's choice, so    *)
(* both answers Chroma releases give are modelled: the records are         *)
(* skipped, or add raises.                                                 *)
(***************************************************************************)
\* batch_size of main.
batch_size == 10

\* Numbers of chunks process_directory may return for the directory.
ChunkTotals == {0, 1, 10, 11, 20, 21}

\* The text of the j-th chunk of the directory (0-based).
Doc(j) == <<"text", j>>

\* f"doc_{j}"
DocId(j) == <<"doc", j>>

\* batch_ids for the batch at offset i of n chunks; the run has no part in it.
BatchIds(i, n, run) == {DocId(j) : j \in i..(Min(i + batch_size, n) - 1)}

\* The ids the collection holds.
StoredIds == {r.id : r \in store}

\* The records of the batch at offset i, under the given ids.
BatchRecords(i, n, run) ==
    {[id |-> id, document |-> Doc(id[2]), run |-> run] :
        id \in BatchIds(i, n, run)}

IngestInit ==
    /\ \E n \in ChunkTotals : ing_chunks = [j \in 1..n |-> Doc(j - 1)]
    /\ ing_run = 1
    /\ ing_i = 0
    /\ store = {}
    /\ count_after_first = 0
    /\ ids_first = {}
    /\ ids_second = {}
    /\ other_failure = FALSE
    /\ ing_raised = FALSE
    /\ ipc = "start"

\* The ids of the batch are noted for the run that made them.
NoteIds(ids) ==
    /\ ids_first' = IF ing_run = 1 THEN ids_first \cup ids ELSE ids_first
    /\ ids_second' = IF ing_run = 2 THEN ids_second \cup ids ELSE ids_second

\* The except clause of the batch loop: it prints, then calls
\* traceback.print_exc(); main has no name traceback, so NameError is raised
\* inside the handler, the outer handler prints and meets the same NameError,
\* and main ends with that exception.
BatchHandler ==
    /\ ing_raised' = TRUE
    /\ ipc' = "raised"
    /\ UNCHANGED <<ing_i, store>>

\* process_directory has returned; with no chunk main returns at once.
IngestBegin ==
    /\ ipc = "start"
    /\ IF ing_chunks = <<>>
       THEN ipc' = "returned" /\ UNCHANGED ing_i
       ELSE ipc' = "batches" /\ ing_i' = 0
    /\ UNCHANGED <<ing_chunks, ing_run, store, count_after_first, ids_first,
                   ids_second, other_failure, ing_raised>>

\* collection.add stores a batch none of whose ids is in the collection.
AddBatchStored ==
    /\ ipc = "batches"
    /\ ing_i < Len(ing_chunks)
    /\ BatchIds(ing_i, Len(ing_chunks), ing_run) \cap StoredIds = {}
    /\ store' = store \cup BatchRecords(ing_i, Len(ing_chunks), ing_run)
    /\ NoteIds(BatchIds(ing_i, Len(ing_chunks), ing_run))
    /\ ing_i' = ing_i + batch_size
    /\ UNCHANGED <<ing_chunks, ing_run, count_after_first, other_failure,
                   ing_raised, ipc>>

\* collection.add is given ids the collection holds and skips those records.
AddBatchDuplicateIgnored ==
    /\ ipc = "batches"
    /\ ing_i < Len(ing_chunks)
    /\ BatchIds(ing_i, Len(ing_chunks), ing_run) \cap StoredIds # {}
    /\ store' = store \cup
                  {r \in BatchRecords(ing_i, Len(ing_chunks), ing_run) :
                      r.id \notin StoredIds}
    /\ NoteIds(BatchIds(ing_i, Len(ing_chunks), ing_run))
    /\ ing_i' = ing_i + batch_size
    /\ UNCHANGED <<ing_chunks, ing_run, count_after_first, other_failure,
                   ing_raised, ipc>>

\* collection.add is given ids the collection holds and raises.
AddBatchDuplicateRaises ==
    /\ ipc = "batches"
    /\ ing_i < Len(ing_chunks)
    /\ BatchIds(ing_i, Len(ing_chunks), ing_run) \cap StoredIds # {}
    /\ NoteIds(BatchIds(ing_i, Len(ing_chunks), ing_run))
    /\ BatchHandler
    /\ UNCHANGED <<ing_chunks, ing_run, count_after_first, other_failure>>

\* collection.add raises for a reason that is not its ids (the embedding
\* request fails, the disk is full).
AddBatchFails ==
    /\ ipc = "batches"
    /\ ing_i < Len(ing_chunks)
    /\ NoteIds(BatchIds(ing_i, Len(ing_chunks), ing_run))
    /\ other_failure' = TRUE
    /\ BatchHandler
    /\ UNCHANGED <<ing_chunks, ing_run, count_after_first>>

\* The batch loop is over: main returns.
IngestReturn ==
    /\ ipc = "batches"
    /\ ing_i >= Len(ing_chunks)
    /\ ipc' = "returned"
    /\ UNCHANGED <<ing_chunks, ing_run, ing_i, store, count_after_first, ids_first,
                   ids_second, other_failure, ing_raised>>

\* The script is run a second time on the same directory and collection.
IngestAgain ==
    /\ ipc \in {"returned", "raised"}
    /\ ing_run = 1
    /\ count_after_first' = Cardinality(store)
    /\ ing_run' = 2
    /\ ing_raised' = FALSE
    /\ ipc' = "start"
    /\ UNCHANGED <<ing_chunks, ing_i, store, ids_first, ids_second, other_failure>>

(***************************************************************************)
(*                    Properties of the ingestion                          *)
(***************************************************************************)
\* C20: when the second ingestion has ended (no add having failed for a
\* reason other than its ids), main has not raised, the collection holds
\* twice the records it held after the first ingestion, and no id made by
\* the second run is an id made by the first.
C20_SecondRunDoubles ==
    (ing_run = 2 /\ ipc \in {"returned", "raised"} /\ ~other_failure) =>
       /\ ~ing_raised
       /\ Cardinality(store) = 2 * count_after_first
       /\ ids_second \cap ids_first = {}

\* C20's case: a directory with chunks was ingested twice without any
\* exception.
C20_Witness ==
    /\ ing_run = 2
    /\ ipc = "returned"
    /\ ~other_failure
    /\ ~ing_raised
    /\ Len(ing_chunks) = 11
    /\ count_after_first = 11

\* The ids of every batch of the directory.
AllDocIds == {DocId(j) : j \in 0..(Len(ing_chunks) - 1)}

\* C21: main never ends with an exception, and when an ingestion has ended
\* every batch of it was given to collection.add, also the batches after one
\* whose add raised.
C21_BatchFailureContained ==
    /\ ~ing_raised
    /\ ipc # "raised"
    /\ ipc = "returned" =>
          (IF ing_run = 1 THEN ids_first ELSE ids_second) = AllDocIds

\* C21's case: in the first ingestion of 21 chunks the add of the first
\* batch raised for a reason that is not its ids.
C21_Witness ==
    /\ ing_run = 1
    /\ Len(ing_chunks) = 21
    /\ other_failure
    /\ ids_first = BatchIds(0, 21, 1)
    /\ ipc = "raised"

(***************************************************************************)
(*                            Specifications                               *)
(***************************************************************************)
\* The state of each component while another one is being run.
SearchIdle ==
    /\ documents = <<>>
    /\ vectors = "None"
    /\ n_results = 0
    /\ similarities = <<>>
    /\ top_indices = <<>>
    /\ result = [status |-> "none"] @@ EmptyResult
    /\ spc = "idle"

ChunkIdle ==
    /\ text = <<>>
    /\ chunk_size = 0
    /\ overlap = 0
    /\ max_chunks = 0
    /\ start = 0
    /\ chunks = <<>>
    /\ chunk_count = 0
    /\ windows = <<>>
    /\ visited = {}
    /\ cpc = "idle"

VideoIdle ==
    /\ audio_len = 0
    /\ split_i = 0
    /\ audio_chunks = <<>>
    /\ temp_files = {}
    /\ transcriptions = <<>>
    /\ chunk_idx = 0
    /\ attempt = 0
    /\ retry_delay = 0
    /\ calls = <<>>
    /\ sleeps = <<>>
    /\ transcription = None
    /\ record = NoRecord
    /\ vpc = "idle"

BatchIdle ==
    /\ max_workers = 0
    /\ video_files = <<>>
    /\ futures = <<>>
    /\ extracted = <<>>
    /\ results = <<>>
    /\ next_result = 0
    /\ all_transcriptions = <<>>
    /\ all_metadata = <<>>
    /\ out_of_order = FALSE
    /\ bpc = "idle"

MoviepyIdle ==
    /\ mv_track = 0
    /\ mv_duration = 0
    /\ mv_start_time = 0
    /\ mv_chunks = <<>>
    /\ mv_temp_files = {}
    /\ mv_transcriptions = <<>>
    /\ mv_idx = 0
    /\ mv_added = <<>>
    /\ mpc = "idle"

MainIdle ==
    /\ env_key = "unset"
    /\ env_url = "unset"
    /\ path_exists = FALSE
    /\ error = "none"
    /\ effects = <<>>
    /\ n_transcribed = 0
    /\ exit_code = "none"
    /\ npc = "idle"

IngestIdle ==
    /\ ing_chunks = <<>>
    /\ ing_run = 0
    /\ ing_i = 0
    /\ store = {}
    /\ count_after_first = 0
    /\ ids_first = {}
    /\ ids_second = {}
    /\ other_failure = FALSE
    /\ ing_raised = FALSE
    /\ ipc = "idle"

SearchNext ==
    \/ GetContextNotLoaded /\ UNCHANGED <<chunkVars, videoVars, batchVars, moviepyVars, mainVars, ingestVars>>
    \/ GetContextSelect /\ UNCHANGED <<chunkVars, videoVars, batchVars, moviepyVars, mainVars, ingestVars>>
    \/ GetContextFailure /\ UNCHANGED <<chunkVars, videoVars, batchVars, moviepyVars, mainVars, ingestVars>>

\* A SearchService answering queries; nothing else is running.
SearchStart ==
    /\ SearchInit
    /\ ChunkIdle
    /\ VideoIdle
    /\ BatchIdle
    /\ MoviepyIdle
    /\ MainIdle
    /\ IngestIdle

SearchSpec == SearchStart /\ [][SearchNext]_vars

ChunkNext ==
    \/ ChunkEmptyText /\ UNCHANGED <<searchVars, videoVars, batchVars, moviepyVars, mainVars, ingestVars>>
    \/ ChunkBegin /\ UNCHANGED <<searchVars, videoVars, batchVars, moviepyVars, mainVars, ingestVars>>
    \/ ChunkIteration /\ UNCHANGED <<searchVars, videoVars, batchVars, moviepyVars, mainVars, ingestVars>>
    \/ ChunkExit /\ UNCHANGED <<searchVars, videoVars, batchVars, moviepyVars, mainVars, ingestVars>>

\* A call of chunk_text; nothing else is running.
ChunkStart ==
    /\ ChunkInit
    /\ SearchIdle
    /\ VideoIdle
    /\ BatchIdle
    /\ MoviepyIdle
    /\ MainIdle
    /\ IngestIdle

ChunkSpec == ChunkStart /\ [][ChunkNext]_vars

VideoNext ==
    \/ VideoFileClipRaises /\ UNCHANGED <<searchVars, chunkVars, batchVars, moviepyVars, mainVars, ingestVars>>
    \/ ExtractAudio /\ UNCHANGED <<searchVars, chunkVars, batchVars, moviepyVars, mainVars, ingestVars>>
    \/ ExtractAudioRaises /\ UNCHANGED <<searchVars, chunkVars, batchVars, moviepyVars, mainVars, ingestVars>>
    \/ SplitChunk /\ UNCHANGED <<searchVars, chunkVars, batchVars, moviepyVars, mainVars, ingestVars>>
    \/ SplitRaises /\ UNCHANGED <<searchVars, chunkVars, batchVars, moviepyVars, mainVars, ingestVars>>
    \/ SplitDone /\ UNCHANGED <<searchVars, chunkVars, batchVars, moviepyVars, mainVars, ingestVars>>
    \/ ChunkTooLarge /\ UNCHANGED <<searchVars, chunkVars, batchVars, moviepyVars, mainVars, ingestVars>>
    \/ TranscribeBegin /\ UNCHANGED <<searchVars, chunkVars, batchVars, moviepyVars, mainVars, ingestVars>>
    \/ Respond200 /\ UNCHANGED <<searchVars, chunkVars, batchVars, moviepyVars, mainVars, ingestVars>>
    \/ RespondError /\ UNCHANGED <<searchVars, chunkVars, batchVars, moviepyVars, mainVars, ingestVars>>
    \/ RespondException /\ UNCHANGED <<searchVars, chunkVars, batchVars, moviepyVars, mainVars, ingestVars>>
    \/ LoopDone /\ UNCHANGED <<searchVars, chunkVars, batchVars, moviepyVars, mainVars, ingestVars>>
    \/ TempDirExit /\ UNCHANGED <<searchVars, chunkVars, batchVars, moviepyVars, mainVars, ingestVars>>
    \/ ProcessVideoReturn /\ UNCHANGED <<searchVars, chunkVars, batchVars, moviepyVars, mainVars, ingestVars>>

\* One call of VideoProcessor.process_video; nothing else is running.
VideoStart ==
    /\ VideoInit
    /\ SearchIdle
    /\ ChunkIdle
    /\ BatchIdle
    /\ MoviepyIdle
    /\ MainIdle
    /\ IngestIdle

VideoSpec == VideoStart /\ [][VideoNext]_vars

BatchNext ==
    \/ WorkerStart /\ UNCHANGED <<searchVars, chunkVars, videoVars, moviepyVars, mainVars, ingestVars>>
    \/ WorkerFinish /\ UNCHANGED <<searchVars, chunkVars, videoVars, moviepyVars, mainVars, ingestVars>>
    \/ Collect /\ UNCHANGED <<searchVars, chunkVars, videoVars, moviepyVars, mainVars, ingestVars>>
    \/ BatchReturn /\ UNCHANGED <<searchVars, chunkVars, videoVars, moviepyVars, mainVars, ingestVars>>

\* One call of VideoProcessor.process_videos_parallel; nothing else is running.
BatchStart ==
    /\ BatchInit
    /\ SearchIdle
    /\ ChunkIdle
    /\ VideoIdle
    /\ MoviepyIdle
    /\ MainIdle
    /\ IngestIdle

BatchSpec == BatchStart /\ [][BatchNext]_vars

MoviepyNext ==
    \/ MoviepyExtractRaises /\ UNCHANGED <<searchVars, chunkVars, videoVars, batchVars, mainVars, ingestVars>>
    \/ MoviepyExtract /\ UNCHANGED <<searchVars, chunkVars, videoVars, batchVars, mainVars, ingestVars>>
    \/ MoviepySplitChunk /\ UNCHANGED <<searchVars, chunkVars, videoVars, batchVars, mainVars, ingestVars>>
    \/ MoviepySplitRaises /\ UNCHANGED <<searchVars, chunkVars, videoVars, batchVars, mainVars, ingestVars>>
    \/ MoviepySplitDone /\ UNCHANGED <<searchVars, chunkVars, videoVars, batchVars, mainVars, ingestVars>>
    \/ MoviepyTranscribed /\ UNCHANGED <<searchVars, chunkVars, videoVars, batchVars, mainVars, ingestVars>>
    \/ MoviepyChunkFails /\ UNCHANGED <<searchVars, chunkVars, videoVars, batchVars, mainVars, ingestVars>>
    \/ MoviepyStore /\ UNCHANGED <<searchVars, chunkVars, videoVars, batchVars, mainVars, ingestVars>>

\* One call of process_video_and_store of the stand-alone script; nothing else is running.
MoviepyStart ==
    /\ MoviepyInit
    /\ SearchIdle
    /\ ChunkIdle
    /\ VideoIdle
    /\ BatchIdle
    /\ MainIdle
    /\ IngestIdle

MoviepySpec == MoviepyStart /\ [][MoviepyNext]_vars

MainNext ==
    \/ ConstructorRaises /\ UNCHANGED <<searchVars, chunkVars, videoVars, batchVars, moviepyVars, ingestVars>>
    \/ ConstructorReturns /\ UNCHANGED <<searchVars, chunkVars, videoVars, batchVars, moviepyVars, ingestVars>>
    \/ VerifyApiSetup /\ UNCHANGED <<searchVars, chunkVars, videoVars, batchVars, moviepyVars, ingestVars>>
    \/ InitializeChroma /\ UNCHANGED <<searchVars, chunkVars, videoVars, batchVars, moviepyVars, ingestVars>>
    \/ InitializeChromaRaises /\ UNCHANGED <<searchVars, chunkVars, videoVars, batchVars, moviepyVars, ingestVars>>
    \/ ProcessVideos /\ UNCHANGED <<searchVars, chunkVars, videoVars, batchVars, moviepyVars, ingestVars>>
    \/ StoreInChroma /\ UNCHANGED <<searchVars, chunkVars, videoVars, batchVars, moviepyVars, ingestVars>>
    \/ MainExcept /\ UNCHANGED <<searchVars, chunkVars, videoVars, batchVars, moviepyVars, ingestVars>>

\* One run of main() of the video processor; nothing else is running.
MainStart ==
    /\ MainInit
    /\ SearchIdle
    /\ ChunkIdle
    /\ VideoIdle
    /\ BatchIdle
    /\ MoviepyIdle
    /\ IngestIdle

MainSpec == MainStart /\ [][MainNext]_vars

IngestNext ==
    \/ IngestBegin /\ UNCHANGED <<searchVars, chunkVars, videoVars, batchVars, moviepyVars, mainVars>>
    \/ AddBatchStored /\ UNCHANGED <<searchVars, chunkVars, videoVars, batchVars, moviepyVars, mainVars>>
    \/ AddBatchDuplicateIgnored /\ UNCHANGED <<searchVars, chunkVars, videoVars, batchVars, moviepyVars, mainVars>>
    \/ AddBatchDuplicateRaises /\ UNCHANGED <<searchVars, chunkVars, videoVars, batchVars, moviepyVars, mainVars>>
    \/ AddBatchFails /\ UNCHANGED <<searchVars, chunkVars, videoVars, batchVars, moviepyVars, mainVars>>
    \/ IngestReturn /\ UNCHANGED <<searchVars, chunkVars, videoVars, batchVars, moviepyVars, mainVars>>
    \/ IngestAgain /\ UNCHANGED <<searchVars, chunkVars, videoVars, batchVars, moviepyVars, mainVars>>

\* The document directory ingested twice by data_processor.main; nothing else is running.
IngestStart ==
    /\ IngestInit
    /\ SearchIdle
    /\ ChunkIdle
    /\ VideoIdle
    /\ BatchIdle
    /\ MoviepyIdle
    /\ MainIdle

IngestSpec == IngestStart /\ [][IngestNext]_vars

=============================================================================
